---- MODULE Spec2Model ----
(***************************************************************************)
(* Model of nu_plugin_tree: the `tree` command (src/src/main.rs) and the   *)
(* directory view (src/src/view.rs).                                       *)
(*                                                                         *)
(* Data mode : TreeView::run builds a ptree StringItem from the pipeline   *)
(*             input (from_value / from_value_helper) and prints it.       *)
(* Path mode : TreeView::run hands a path to view::run, which walks the    *)
(*             directory and prints one line per entry and a summary.      *)
(***************************************************************************)
EXTENDS Integers, Sequences, FiniteSets, TLC

VARIABLES
    pc,          \* "start" | "walk" | "done": position of the command
    caller,      \* "plugin" (TreeView::run) | "view" (view::run called directly)
    path_param,  \* call.has_flag("path")
    input,       \* the PipelineData given to TreeView::run
    world,       \* the filesystem below args.path
    tree,        \* the StringItem handed to print_tree_with (NoTree before)
    args,        \* the ViewArgs of view::run
    git,         \* what git::load_status returned: "unset" | "none" | "some" | "err"
    results,     \* what builder.build() yields, in order
    idx,         \* how many results of the walk the loop has consumed
    dir_count,   \* view::run's dir_count
    file_count,  \* view::run's file_count
    emitted,     \* the entries that reached the writeln! of the loop, in order
    out,         \* the records the output sink accepted, in order
    failed,      \* a write to the output sink has failed
    late,        \* writes attempted after a write had already failed
    diag,        \* lines written to the diagnostic stream (eprintln!)
    last,        \* the lookups of the latest iteration of the loop of view::run
    ret          \* "none" | "Ok" | "Err": what the command returned

vars == <<pc, caller, path_param, input, world, tree, args, git, results, idx,
          dir_count, file_count, emitted, out, failed, late, diag, last, ret>>

(***************************************************************************)
(* Bounds of the model.                                                    *)
(***************************************************************************)
\* number of Value constructors in a structured input
MaxSize == 4
\* number of entries below the walk root
MaxEntries == 3
\* largest depth limit (ViewArgs.level) tried
MaxLevel == 2

(***************************************************************************)
(* nu_protocol::Value, as far as from_value_helper distinguishes it.       *)
(* Every value has the same fields, so that TLC can compare any two:       *)
(* n is the payload of an Int, s of a String, items the (key, value)       *)
(* pairs of a Record or, with key "", the elements of a List.              *)
(***************************************************************************)
Val(tag, n, s, items) == [tag |-> tag, n |-> n, s |-> s, items |-> items]

Scalars == {Val("Int", 7, "", <<>>), Val("String", 0, "x", <<>>),
            Val("Nothing", 0, "", <<>>)}

Keys == {"a", "b"}

IsScalar(v) == v.tag \notin {"Record", "List"}

ListOf(f) == Val("List", 0, "", [i \in 1..Len(f) |-> [k |-> "", v |-> f[i]]])

RecordOf(ks, f) == Val("Record", 0, "", [i \in 1..Len(f) |-> [k |-> ks[i], v |-> f[i]]])

\* the key sequences of a record with n columns: no key twice
KeySeqs(n) == {ks \in [1..n -> Keys] : \A i, j \in 1..n : ks[i] = ks[j] => i = j}

RECURSIVE ValuesOfSize(_), ForestsOfSize(_)
\* the sequences of values that hold m constructors in all
ForestsOfSize(m) ==
    IF m = 0 THEN {<<>>}
    ELSE UNION {{<<v>> \o f : v \in ValuesOfSize(k), f \in ForestsOfSize(m - k)} : k \in 1..m}

\* the values that hold exactly n constructors
ValuesOfSize(n) ==
    (IF n = 1 THEN Scalars ELSE {})
    \cup {ListOf(f) : f \in ForestsOfSize(n - 1)}
    \cup UNION {{RecordOf(ks, f) : ks \in KeySeqs(Len(f))} :
                f \in {g \in ForestsOfSize(n - 1) : Len(g) <= Cardinality(Keys)}}

Values == UNION {ValuesOfSize(n) : n \in 1..MaxSize}

Streams == UNION {ForestsOfSize(m) : m \in 0..(MaxSize - 1)}

\* nu_protocol::PipelineData: vals are the values of a ListStream
Pipe(kind, value, vals) == [kind |-> kind, value |-> value, vals |-> vals]

NoValue == Val("Nothing", 0, "", <<>>)

PipelineData ==
    {Pipe("Empty", NoValue, <<>>), Pipe("ByteStream", NoValue, <<>>)}
    \cup {Pipe("Value", v, <<>>) : v \in Values}
    \cup {Pipe("ListStream", NoValue, f) : f \in Streams}

(***************************************************************************)
(* ptree::item::StringItem and ptree::TreeBuilder.                         *)
(***************************************************************************)
Item(text, children) == [text |-> text, children |-> children]

NoTree == Item("<none>", <<>>)

TreeBuilderNew(text) == [item |-> Item(text, <<>>), level |-> 0]

RECURSIVE append_child(_, _, _)
\* push new below the last child of the last child ... (level times) of item
append_child(item, level, new) ==
    IF level = 0 THEN [item EXCEPT !.children = Append(@, new)]
    ELSE [item EXCEPT !.children[Len(item.children)] = append_child(@, level - 1, new)]

begin_child(builder, text) ==
    [item |-> append_child(builder.item, builder.level, Item(text, <<>>)),
     level |-> builder.level + 1]

end_child(builder) == [builder EXCEPT !.level = @ - 1]

add_empty_child(builder, text) == end_child(begin_child(builder, text))

build(builder) == builder.item

(***************************************************************************)
(* to_string of the scalar payloads                                        *)
(***************************************************************************)
Digit == <<"0", "1", "2", "3", "4", "5", "6", "7", "8", "9">>

RECURSIVE IntToString(_)
IntToString(n) ==
    IF n < 10 THEN Digit[n + 1] ELSE IntToString(n \div 10) \o Digit[(n % 10) + 1]

(***************************************************************************)
(* from_value_helper (main.rs 187-247)                                     *)
(***************************************************************************)
RECURSIVE from_value_helper(_, _), RecordLoop(_, _, _), ListLoop(_, _, _)

\* for (k, v) in val.iter() { begin_child(k); from_value_helper(v); end_child() }
RecordLoop(items, i, builder) ==
    IF i > Len(items) THEN builder
    ELSE RecordLoop(items, i + 1,
            end_child(from_value_helper(items[i].v, begin_child(builder, items[i].k))))

\* for value in vals { from_value_helper(value) }
ListLoop(items, i, builder) ==
    IF i > Len(items) THEN builder
    ELSE ListLoop(items, i + 1, from_value_helper(items[i].v, builder))

\* from_value_helper with a List opening a node of its own
from_value_helper_nested(value, builder) ==
    CASE value.tag = "Int" -> add_empty_child(builder, IntToString(value.n))
      [] value.tag = "String" -> add_empty_child(builder, value.s)
      [] value.tag = "Nothing" -> add_empty_child(builder, "null")
      [] value.tag = "Record" -> RecordLoop(value.items, 1, builder)
      [] value.tag = "List" ->
           end_child(ListLoop(value.items, 1, begin_child(builder, "list")))

\* from_value_helper with a placeholder leaf for an empty Record or List
from_value_helper_placeholder(value, builder) ==
    CASE value.tag = "Int" -> add_empty_child(builder, IntToString(value.n))
      [] value.tag = "String" -> add_empty_child(builder, value.s)
      [] value.tag = "Nothing" -> add_empty_child(builder, "null")
      [] value.tag \in {"Record", "List"} /\ value.items = <<>> ->
           add_empty_child(builder, "empty")
      [] value.tag = "Record" -> RecordLoop(value.items, 1, builder)
      [] value.tag = "List" -> ListLoop(value.items, 1, builder)

from_value_helper(value, builder) ==
    CASE value.tag = "Int" -> add_empty_child(builder, IntToString(value.n))
      [] value.tag = "String" -> add_empty_child(builder, value.s)
      [] value.tag = "Nothing" -> add_empty_child(builder, "null")
      [] value.tag = "Record" -> RecordLoop(value.items, 1, builder)
      [] value.tag = "List" -> ListLoop(value.items, 1, builder)

(***************************************************************************)
(* from_value (main.rs 160-185)                                            *)
(***************************************************************************)
from_value(in) ==
    LET builder == TreeBuilderNew("") IN
    build(CASE in.kind = "Empty" -> add_empty_child(builder, "empty")
            [] in.kind = "Value" ->
                 end_child(from_value_helper(in.value, begin_child(builder, "value")))
            [] in.kind = "ListStream" ->
                 end_child(add_empty_child(begin_child(builder, "list stream"),
                                           "<contains stream data>"))
            [] in.kind = "ByteStream" -> add_empty_child(builder, "binary stream"))

\* list_stream.into_value(): the stream collected into one List
into_value(vals) == ListOf(vals)

\* the match of TreeView::run (main.rs 125-134)
BuildTree(in) ==
    IF in.kind = "ListStream"
    THEN build(from_value_helper(into_value(in.vals), TreeBuilderNew("root")))
    ELSE from_value(in)

(***************************************************************************)
(* ptree::output::print_tree_with: one line per node, the root first, the  *)
(* children in order below their parent.                                   *)
(***************************************************************************)
\* A record of the output: kind is "node" (a line of the printed tree),
\* "header", "entry", "blank" or "summary" (the lines of view::run). An entry
\* line keeps its depth and the entry it shows (id, is_dir); its decorations
\* are kept for the latest entry only, in last.
Line(kind, text, depth, id, is_dir, dirs, files) ==
    [kind |-> kind, text |-> text, depth |-> depth, id |-> id, is_dir |-> is_dir,
     dirs |-> dirs, files |-> files]

NodeLine(text, depth) == Line("node", text, depth, 0, FALSE, 0, 0)

RECURSIVE TreeLines(_, _), ForestLines(_, _, _)
ForestLines(items, i, depth) ==
    IF i > Len(items) THEN <<>>
    ELSE TreeLines(items[i], depth) \o ForestLines(items, i + 1, depth)

TreeLines(item, depth) ==
    <<NodeLine(item.text, depth)>> \o ForestLines(item.children, 1, depth + 1)

(***************************************************************************)
(* The filesystem below args.path, in the order a depth-first walk meets   *)
(* it: each entry with its depth, its kind ("file", "dir", or "err" for a  *)
(* place where the walk yields an error instead of an entry), whether its  *)
(* name is hidden and whether a .gitignore rule matches it.                *)
(***************************************************************************)
Entry(depth, kind, hidden, ignored) ==
    [depth |-> depth, kind |-> kind, hidden |-> hidden, ignored |-> ignored]

\* files and directories: plain, hidden or ignored
NamedEntries ==
    {e \in {Entry(d, k, h, g) : d \in 1..MaxEntries, k \in {"file", "dir"},
                                h \in BOOLEAN, g \in BOOLEAN} :
        ~(e.hidden /\ e.ignored)}

\* plain files and directories, and places where the walk reports an error
PlainOrErrEntries ==
    {Entry(d, k, FALSE, FALSE) : d \in 1..MaxEntries, k \in {"file", "dir", "err"}}

\* an entry lies directly below the root or below the directory before it,
\* or beside or above the entry before it
WellFormed(fs) ==
    \A i \in 1..Len(fs) :
        IF i = 1 THEN fs[i].depth = 1
        ELSE /\ fs[i].depth <= fs[i - 1].depth + 1
             /\ fs[i].depth = fs[i - 1].depth + 1 => fs[i - 1].kind = "dir"

RECURSIVE TreesOfLen(_, _)
\* the trees of n entries taken from E
TreesOfLen(E, n) ==
    IF n = 0 THEN {<<>>}
    ELSE {fs \in {Append(t, e) : t \in TreesOfLen(E, n - 1), e \in E} : WellFormed(fs)}

\* a tree holds hidden and ignored entries, or walk errors
Trees ==
    UNION {TreesOfLen(NamedEntries, n) \cup TreesOfLen(PlainOrErrEntries, n) :
           n \in 0..MaxEntries}

World(root_is_dir, fs) == [root_is_dir |-> root_is_dir, fs |-> fs]

NoWorld == World(FALSE, <<>>)

Worlds == {NoWorld} \cup {World(TRUE, fs) : fs \in Trees}

\* the worlds whose entries are neither hidden nor ignored nor in error
PlainWorlds ==
    {w \in Worlds : \A i \in 1..Len(w.fs) :
        w.fs[i].kind # "err" /\ ~w.fs[i].hidden /\ ~w.fs[i].ignored}

(***************************************************************************)
(* view::ViewArgs (view.rs 45-77); level 0 .. is Some, NoLevel is None.    *)
(***************************************************************************)
NoLevel == -1

ViewArgs(level, dirs_only, size, permissions, all, gitignore, git_status, icons) ==
    [level |-> level, dirs_only |-> dirs_only, size |-> size,
     permissions |-> permissions, all |-> all, gitignore |-> gitignore,
     git_status |-> git_status, icons |-> icons]

\* #[derive(Default)]
ViewArgsDefault == ViewArgs(NoLevel, FALSE, FALSE, FALSE, FALSE, FALSE, FALSE, FALSE)

\* what TreeView::run sets (main.rs 101-108)
PluginViewArgs ==
    [ViewArgsDefault EXCEPT !.git_status = TRUE, !.size = TRUE, !.icons = TRUE,
                            !.all = TRUE, !.permissions = TRUE]

Levels == {NoLevel} \cup 0..MaxLevel

(***************************************************************************)
(* ignore::WalkBuilder as view::run configures it (view.rs 116-120), and   *)
(* what its walk yields: the root at depth 0, then every entry that is     *)
(* neither filtered itself nor below a filtered directory, nor deeper than *)
(* max_depth.                                                              *)
(***************************************************************************)
\* the builder with hidden(args.all): the negation lost
WalkBuilderHiddenFlipped(a) ==
    [hidden |-> a.all, git_ignore |-> a.gitignore, max_depth |-> a.level]

\* the builder with max_depth never set
WalkBuilderNoMaxDepth(a) ==
    [hidden |-> ~a.all, git_ignore |-> a.gitignore, max_depth |-> NoLevel]

WalkBuilder(a) ==
    [hidden |-> ~a.all, git_ignore |-> a.gitignore, max_depth |-> a.level]

\* the directory an entry lies in: 0 is the root
Parent(fs, i) ==
    LET above == {j \in 1..(i - 1) : fs[j].depth = fs[i].depth - 1}
    IN  IF above = {} THEN 0 ELSE CHOOSE j \in above : \A k \in above : k <= j

Filtered(b, e) == (b.hidden /\ e.hidden) \/ (b.git_ignore /\ e.ignored)

RECURSIVE Skipped(_, _, _)
Skipped(b, fs, i) ==
    IF i = 0 THEN FALSE ELSE Filtered(b, fs[i]) \/ Skipped(b, fs, Parent(fs, i))

Yielded(b, fs, i) ==
    /\ ~Skipped(b, fs, i)
    /\ (b.max_depth = NoLevel \/ fs[i].depth <= b.max_depth)

\* a result of the walk: Ok(entry) or Err
Result(ok, depth, is_dir, id) == [ok |-> ok, depth |-> depth, is_dir |-> is_dir, id |-> id]

RECURSIVE WalkFrom(_, _, _)
WalkFrom(b, fs, i) ==
    IF i > Len(fs) THEN <<>>
    ELSE (IF Yielded(b, fs, i)
          THEN <<Result(fs[i].kind # "err", fs[i].depth, fs[i].kind = "dir", i)>>
          ELSE <<>>) \o WalkFrom(b, fs, i + 1)

Walk(b, fs) == <<Result(TRUE, 0, TRUE, 0)>> \o WalkFrom(b, fs, 1)

(***************************************************************************)
(* The output sink (io::stdout()): any write to it is accepted or fails,   *)
(* whatever happened to the writes before it.                              *)
(***************************************************************************)
WriteOutcomes == BOOLEAN

(***************************************************************************)
(* The inputs of a run.                                                    *)
(***************************************************************************)
\* the inputs tried with --path: a text path, and inputs of other shapes
PathInputs ==
    {Pipe("Empty", NoValue, <<>>), Pipe("ByteStream", NoValue, <<>>),
     Pipe("ListStream", NoValue, <<>>)}
    \cup {Pipe("Value", v, <<>>) : v \in ValuesOfSize(1)}

IsTextPath(in) == in.kind = "Value" /\ in.value.tag = "String"

\* the ViewArgs a direct caller of view::run passes: every setting of the
\* filters with the decorations off (tried on every world), and every
\* setting of the decorations with the filters of ViewArgs::default()
\* (tried on the worlds of plain entries)
FilterViewArgs ==
    {ViewArgs(l, d, FALSE, FALSE, a, g, FALSE, FALSE) :
        l \in Levels, d \in BOOLEAN, a \in BOOLEAN, g \in BOOLEAN}

DecorViewArgs ==
    {ViewArgs(NoLevel, FALSE, s, p, FALSE, FALSE, st, i) :
        s \in BOOLEAN, p \in BOOLEAN, st \in BOOLEAN, i \in BOOLEAN}

\* the filters and the decorations together: every filter set and every
\* decoration asked for, with and without a depth limit (tried on every
\* world)
DecoratedFilterViewArgs ==
    {ViewArgs(l, TRUE, TRUE, TRUE, FALSE, TRUE, TRUE, TRUE) : l \in {NoLevel, 1}}

\* the lookups of one iteration: the status lookup ("none": not made) and
\* the status column it gave, the stat ("none": not made) and whether the
\* icon was looked up
Lookups(lookup, git_status_str, stat, icon) ==
    [lookup |-> lookup, git_status_str |-> git_status_str, stat |-> stat, icon |-> icon]

NoLookups == Lookups("none", "", "none", FALSE)

Init ==
    /\ pc = "start"
    /\ caller \in {"plugin", "view"}
    /\ path_param \in BOOLEAN
    /\ IF caller = "view"
       THEN /\ path_param = TRUE
            /\ input = Pipe("Empty", NoValue, <<>>)
            /\ \/ args \in FilterViewArgs \cup DecoratedFilterViewArgs /\ world \in Worlds
               \/ args \in DecorViewArgs /\ world \in PlainWorlds
       ELSE /\ args = ViewArgsDefault
            /\ IF path_param
               THEN /\ input \in PathInputs
                    /\ IF IsTextPath(input) THEN world \in Worlds ELSE world = NoWorld
               ELSE /\ input \in PipelineData
                    /\ world = NoWorld
    /\ tree = NoTree
    /\ git = "unset"
    /\ results = <<>>
    /\ idx = 0
    /\ dir_count = 0
    /\ file_count = 0
    /\ emitted = <<>>
    /\ out = <<>>
    /\ failed = FALSE
    /\ late = 0
    /\ diag = 0
    /\ last = NoLookups
    /\ ret = "none"

(***************************************************************************)
(* TreeView::run without --path (main.rs 123-156): build the tree, print   *)
(* it. print_tree_with stops at the first write that fails and returns the *)
(* error, which run hands on with `?`.                                     *)
(***************************************************************************)
TreeViewRunData ==
    /\ pc = "start" /\ caller = "plugin" /\ ~path_param
    /\ LET t == BuildTree(input)
           lines == TreeLines(t, 0)
       IN  /\ tree' = t
           /\ \E n \in 0..Len(lines) :
                \* n lines are accepted; the write after them fails, if there is one
                /\ out' = SubSeq(lines, 1, n)
                /\ failed' = (n < Len(lines))
                /\ ret' = IF n = Len(lines) THEN "Ok" ELSE "Err"
    /\ pc' = "done"
    /\ UNCHANGED <<caller, path_param, input, world, args, git, results, idx,
                   dir_count, file_count, emitted, late, diag, last>>

(***************************************************************************)
(* view::run up to the loop (view.rs 80-123)                               *)
(***************************************************************************)
HeaderLine == Line("header", "path", 0, 0, FALSE, 0, 0)

\* what git::load_status can return: Err, Ok(None), Ok(Some(status))
LoadStatusResults == {"err", "none", "some"}

\* is_dir answering true for any path
IsDirUnchecked(w) == TRUE

\* args.path.is_dir() (view.rs 82)
IsDir(w) == w.root_is_dir

ViewRunStart(a) ==
    /\ args' = a
    /\ UNCHANGED <<caller, path_param, input, world, tree, idx, dir_count,
                   file_count, emitted, late, diag, last>>
    /\ IF ~IsDir(world)
       THEN \* anyhow::bail!("'{}' is not a directory.")
            /\ ret' = "Err" /\ pc' = "done"
            /\ UNCHANGED <<git, results, out, failed>>
       ELSE \* fs::canonicalize(&args.path)? resolves the path is_dir() has just
            \* resolved: it succeeds. Then the header: writeln!(io::stdout(), ..)
            \E accepted \in WriteOutcomes :
            /\ failed' = ~accepted
            /\ IF ~accepted
               THEN \* the header was not written: return Ok(())
                    /\ ret' = "Ok" /\ pc' = "done"
                    /\ UNCHANGED <<git, results, out>>
               ELSE /\ out' = Append(out, HeaderLine)
                    /\ \E g \in (IF a.git_status THEN LoadStatusResults ELSE {"none"}) :
                         /\ git' = g
                         /\ IF g = "err"
                            THEN \* git::load_status(&canonical_root)?
                                 /\ ret' = "Err" /\ pc' = "done"
                                 /\ UNCHANGED results
                            ELSE /\ results' = Walk(WalkBuilder(a), world.fs)
                                 /\ pc' = "walk"
                                 /\ UNCHANGED ret

\* TreeView::run with --path (main.rs 93-122)
TreeViewRunPath ==
    /\ pc = "start" /\ caller = "plugin" /\ path_param
    /\ IF IsTextPath(input)
       THEN ViewRunStart(PluginViewArgs)
       ELSE \* Expected a folder path to be provided when using --path flag
            /\ ret' = "Err" /\ pc' = "done"
            /\ UNCHANGED <<caller, path_param, input, world, tree, args, git, results,
                           idx, dir_count, file_count, emitted, out, failed, late, diag, last>>

\* view::run called with the caller's own ViewArgs
ViewRun ==
    /\ pc = "start" /\ caller = "view"
    /\ ViewRunStart(args)

(***************************************************************************)
(* One iteration of the loop of view::run (view.rs 125-295)                *)
(***************************************************************************)
\* the outcomes of the status lookup of one entry (view.rs 143-173)
LookupOutcomes(g) ==
    IF g = "some" THEN {"canon_fail", "outside", "miss", "hit"} ELSE {"none"}

GitStatusStr(lookup) ==
    CASE lookup = "none" -> ""
      [] lookup = "hit" -> "X "
      [] OTHER -> "  "

\* the stat made for every entry, whatever is to be shown
StatOutcomesAlways(a) == {"made"}

\* entry.metadata().ok(), asked for only with size or permissions ("made");
\* what it answers shapes the permission and size columns only
StatOutcomes(a) == IF a.size \/ a.permissions THEN {"made"} ELSE {"none"}

\* the entries the loop passes over: the root, and with dirs_only whatever
\* is not a directory (view.rs 134-141)
BlankLine == Line("blank", "", 0, 0, FALSE, 0, 0)

SummaryLine(dirs, files) ==
    Line("summary", "directories, files", 0, 0, FALSE, dirs, files)

\* the loop without the dirs_only test
SkipEntryKeepsFiles(a, r) == r.depth = 0

\* the counters with the two branches exchanged
CountEntrySwapped(r, counts) ==
    IF r.is_dir THEN [counts EXCEPT !.files = @ + 1] ELSE [counts EXCEPT !.dirs = @ + 1]

\* if is_dir { dir_count += 1 } else { file_count += 1 } (view.rs 273-277)
CountEntry(r, counts) ==
    IF r.is_dir THEN [counts EXCEPT !.dirs = @ + 1] ELSE [counts EXCEPT !.files = @ + 1]

SkipEntry(a, r) == r.depth = 0 \/ (a.dirs_only /\ ~r.is_dir)

WalkStep ==
    /\ pc = "walk" /\ idx < Len(results)
    /\ idx' = idx + 1
    /\ UNCHANGED <<caller, path_param, input, world, tree, args, git, results>>
    /\ LET r == results[idx + 1] IN
       IF ~r.ok
       THEN \* eprintln!("ERROR: {}", err); continue
            /\ diag' = diag + 1
            /\ last' = NoLookups
            /\ UNCHANGED <<pc, dir_count, file_count, emitted, out, failed, late, ret>>
       ELSE IF SkipEntry(args, r)
       THEN \* continue
            /\ last' = NoLookups
            /\ UNCHANGED <<pc, dir_count, file_count, emitted, out, failed, late, diag,
                           ret>>
       ELSE \E lookup \in LookupOutcomes(git), stat \in StatOutcomes(args),
               accepted \in WriteOutcomes :
            LET line == Line("entry", "name", r.depth, r.id, r.is_dir, 0, 0)
                counts == CountEntry(r, [dirs |-> dir_count, files |-> file_count])
            IN  /\ dir_count' = counts.dirs
                /\ file_count' = counts.files
                /\ emitted' = Append(emitted, line)
                /\ last' = Lookups(lookup, GitStatusStr(lookup), stat, args.icons)
                /\ UNCHANGED diag
                /\ IF accepted
                   THEN /\ out' = Append(out, line)
                        /\ UNCHANGED <<pc, failed, late, ret>>
                   ELSE \* break: on to the summary (view.rs 297-300), whose
                        \* write is attempted all the same
                        \E summary_accepted \in WriteOutcomes :
                          /\ out' = IF summary_accepted
                                    THEN out \o <<BlankLine,
                                                  SummaryLine(counts.dirs, counts.files)>>
                                    ELSE out
                          /\ failed' = TRUE
                          /\ late' = late + 1
                          /\ ret' = "Ok"
                          /\ pc' = "done"

(***************************************************************************)
(* After the last result of the walk (view.rs 297-300): the summary, the   *)
(* failure of whose write is ignored.                                      *)
(***************************************************************************)
WalkFinish ==
    /\ pc = "walk" /\ idx = Len(results)
    /\ \E accepted \in WriteOutcomes :
         /\ out' = IF accepted
                   THEN out \o <<BlankLine, SummaryLine(dir_count, file_count)>>
                   ELSE out
         /\ failed' = ~accepted
    /\ ret' = "Ok"
    /\ pc' = "done"
    /\ UNCHANGED <<caller, path_param, input, world, tree, args, git, results, idx,
                   dir_count, file_count, emitted, late, diag, last>>

Next ==
    \/ TreeViewRunData
    \/ TreeViewRunPath
    \/ ViewRun
    \/ WalkStep
    \/ WalkFinish

Spec == Init /\ [][Next]_vars

(***************************************************************************)
(* Properties of the value tree (data mode)                                *)
(***************************************************************************)
\* TreeView::run has built and printed the tree of a value or of a stream
DataBuilt ==
    /\ pc = "done" /\ caller = "plugin" /\ ~path_param
    /\ input.kind \in {"Value", "ListStream"}

\* the top-level value: a stream is collected into one List
TopValue == IF input.kind = "ListStream" THEN into_value(input.vals) ELSE input.value

\* the node from_value_helper was called on: the "value" node below the root
\* of from_value, or the root itself for a stream
Wrapper == IF input.kind = "ListStream" THEN tree ELSE tree.children[1]

\* the text of a scalar
ScalarText(v) ==
    CASE v.tag = "Int" -> IntToString(v.n)
      [] v.tag = "String" -> v.s
      [] v.tag = "Nothing" -> "null"

RECURSIVE Conv(_), ConvList(_, _)
\* the nodes a value must contribute to its parent: a scalar one leaf, a
\* mapping one node per key holding the nodes of the key's value, a sequence
\* the nodes of its elements one after the other
Conv(v) ==
    IF IsScalar(v) THEN <<Item(ScalarText(v), <<>>)>>
    ELSE IF v.tag = "Record"
    THEN [i \in 1..Len(v.items) |-> Item(v.items[i].k, Conv(v.items[i].v))]
    ELSE ConvList(v.items, 1)

ConvList(items, i) ==
    IF i > Len(items) THEN <<>> ELSE Conv(items[i].v) \o ConvList(items, i + 1)

RECURSIVE ScalarCount(_), ScalarCountFrom(_, _)
\* the scalars in a value
ScalarCount(v) == IF IsScalar(v) THEN 1 ELSE ScalarCountFrom(v.items, 1)

ScalarCountFrom(items, i) ==
    IF i > Len(items) THEN 0 ELSE ScalarCount(items[i].v) + ScalarCountFrom(items, i + 1)

RECURSIVE Childless(_), ChildlessFrom(_, _)
\* the nodes of a tree that have no children
Childless(item) ==
    IF item.children = <<>> THEN 1 ELSE ChildlessFrom(item.children, 1)

ChildlessFrom(children, i) ==
    IF i > Len(children) THEN 0
    ELSE Childless(children[i]) + ChildlessFrom(children, i + 1)

\* C1: the value-tree builder turns each scalar into exactly one leaf
\* labelled with its text, each mapping into one node per key, in key order,
\* holding the conversion of the key's value, and puts the conversions of a
\* sequence's elements, in order, directly under the sequence's own parent.
C1_ConversionShape == DataBuilt => Wrapper.children = Conv(TopValue)

\* a mapping whose key holds a sequence of two elements has been converted
C1_Witness ==
    /\ DataBuilt /\ input.kind = "Value" /\ input.value.tag = "Record"
    /\ \E i \in 1..Len(input.value.items) :
         /\ input.value.items[i].v.tag = "List"
         /\ Len(input.value.items[i].v.items) = 2
    /\ Len(tree.children[1].children[1].children) = 2

\* C2: for every data-mode input, realized value or stream, the tree handed
\* to the renderer has an unlabeled root, and a top-level scalar yields a
\* single child under that root.
C2_UnlabeledRoot ==
    DataBuilt =>
        /\ tree.text = ""
        /\ (input.kind = "Value" /\ IsScalar(input.value)) => Len(tree.children) = 1

IsEmptyColl(v) == ~IsScalar(v) /\ v.items = <<>>

RECURSIVE EmptyColls(_), EmptyCollsFrom(_, _)
\* the empty mappings and sequences in a value, itself included
EmptyColls(v) ==
    IF IsScalar(v) THEN 0
    ELSE IF v.items = <<>> THEN 1 ELSE EmptyCollsFrom(v.items, 1)

EmptyCollsFrom(items, i) ==
    IF i > Len(items) THEN 0 ELSE EmptyColls(items[i].v) + EmptyCollsFrom(items, i + 1)

\* C3 as stated: an empty mapping or sequence anywhere in the input (top
\* level, value of a key, element of a sequence) is never left out: each has
\* a node of its own with zero children, as each scalar has its leaf, so the
\* tree holds at least as many childless nodes as the input holds scalars
\* and empty collections.
C3_EmptyNeverOmitted ==
    DataBuilt => Childless(tree) >= ScalarCount(TopValue) + EmptyColls(TopValue)

RECURSIVE Width(_), WidthFrom(_, _)
\* the number of sibling nodes a value contributes: an empty mapping or
\* sequence contributes none
Width(v) ==
    IF IsScalar(v) THEN 1
    ELSE IF v.tag = "Record" THEN Len(v.items) ELSE WidthFrom(v.items, 1)

WidthFrom(items, i) ==
    IF i > Len(items) THEN 0 ELSE Width(items[i].v) + WidthFrom(items, i + 1)

RECURSIVE KeyEmptiesOK(_, _)
\* nodes are the nodes v contributed: every key whose value is an empty
\* mapping or sequence has a node with zero children, and an element of a
\* sequence takes exactly its own width of nodes, an empty one none
KeyEmptiesOK(v, nodes) ==
    IF IsScalar(v) THEN Len(nodes) = 1
    ELSE IF v.tag = "Record"
    THEN /\ Len(nodes) = Len(v.items)
         /\ \A i \in 1..Len(v.items) :
              /\ nodes[i].text = v.items[i].k
              /\ IsEmptyColl(v.items[i].v) => nodes[i].children = <<>>
              /\ KeyEmptiesOK(v.items[i].v, nodes[i].children)
    ELSE /\ Len(nodes) = WidthFrom(v.items, 1)
         /\ \A i \in 1..Len(v.items) :
              LET off == WidthFrom(v.items, 1) - WidthFrom(v.items, i)
              IN  KeyEmptiesOK(v.items[i].v,
                               SubSeq(nodes, off + 1, off + Width(v.items[i].v)))

\* C3 amended: an empty mapping or sequence that is the top-level value or
\* the value of a key is shown by a node with zero children (the node that
\* wraps the top-level value, the key's node); one that is an element of a
\* sequence adds no node.
C3_EmptyAmended ==
    DataBuilt =>
        /\ IsEmptyColl(TopValue) => Wrapper.children = <<>>
        /\ KeyEmptiesOK(TopValue, Wrapper.children)

\* a sequence holding a mapping with an empty sequence under its key, and an
\* empty sequence as its second element, has been converted
C3_Witness ==
    /\ DataBuilt /\ input.kind = "Value"
    /\ input.value = ListOf(<<RecordOf(<<"a">>, <<ListOf(<<>>)>>), ListOf(<<>>)>>)
    /\ Len(tree.children[1].children) = 1

(***************************************************************************)
(* Properties of path mode and of the output sink                          *)
(***************************************************************************)
\* view::run was called: directly, or by TreeView::run on a text path
ViewCalled == caller = "view" \/ (caller = "plugin" /\ path_param /\ IsTextPath(input))

\* C4: in path mode, when the input is not a text path or the path is not a
\* directory, the command returns one error and has written nothing to the
\* output sink: no write was accepted, none failed, and nothing went to the
\* diagnostics.
C4_FatalBeforeOutput ==
    (/\ pc = "done"
     /\ \/ caller = "plugin" /\ path_param /\ ~IsTextPath(input)
        \/ ViewCalled /\ ~world.root_is_dir)
    => (ret = "Err" /\ out = <<>> /\ ~failed /\ late = 0 /\ diag = 0)

\* TreeView::run was given a text path that is not a directory
C4_Witness ==
    /\ pc = "done" /\ caller = "plugin" /\ path_param
    /\ IsTextPath(input) /\ ~world.root_is_dir /\ ret = "Err"

RECURSIVE AncestorsOrSelf(_, _)
\* an entry and the directories around it, up to the root
AncestorsOrSelf(fs, i) ==
    IF i = 0 THEN {} ELSE {i} \cup AncestorsOrSelf(fs, Parent(fs, i))

\* the entry is no error, and the hidden, ignore and depth settings of the
\* arguments let it through
Visible(a, fs, i) ==
    /\ fs[i].kind # "err"
    /\ a.level # NoLevel => fs[i].depth <= a.level
    /\ \A j \in AncestorsOrSelf(fs, i) :
         /\ ~(~a.all /\ fs[j].hidden)
         /\ ~(a.gitignore /\ fs[j].ignored)

\* the entries that pass every filter of the walk
Passing(a, fs) ==
    {i \in 1..Len(fs) : Visible(a, fs, i) /\ (a.dirs_only => fs[i].kind = "dir")}

EmittedIds == {emitted[i].id : i \in 1..Len(emitted)}

SummaryWritten == out # <<>> /\ out[Len(out)].kind = "summary"

\* C5: with status display requested, no failure of the status machinery
\* makes the walk fail: view::run returns success, every entry that passed
\* the filters is emitted, with a "no status" column where its lookup
\* failed, and the summary is written. (Runs whose sink fails are left out.)
C5_StatusNeverFailsWalk ==
    /\ last.lookup \in {"canon_fail", "outside", "miss"} => last.git_status_str = "  "
    /\ (pc = "done" /\ ViewCalled /\ world.root_is_dir /\ args.git_status /\ ~failed)
       => (/\ ret = "Ok"
           /\ EmittedIds = Passing(args, world.fs)
           /\ SummaryWritten)

\* C6: in both rendering paths, once a write to the sink has failed no
\* further write is attempted and the command returns success.
C6_SinkFailureQuiet ==
    (pc = "done" /\ failed) => (ret = "Ok" /\ late = 0)

\* the root holds exactly one file and one subdirectory, and the
\* subdirectory is not empty
OneFileOneSubdir(fs) ==
    /\ \E f, d \in 1..Len(fs) :
         /\ {i \in 1..Len(fs) : fs[i].depth = 1} = {f, d}
         /\ fs[f].kind = "file" /\ fs[d].kind = "dir"
    /\ \E i \in 1..Len(fs) : fs[i].depth = 2

\* such a root was walked with ViewArgs::default(), no write failed, and the
\* summary is the last line of the output
DefaultWalkDone ==
    /\ pc = "done" /\ caller = "view" /\ args = ViewArgsDefault
    /\ world.root_is_dir /\ OneFileOneSubdir(world.fs)
    /\ ~failed /\ SummaryWritten

NumOfKind(fs, k) == Cardinality({i \in 1..Len(fs) : fs[i].kind = k})

\* a walk with dirs_only that ran to its end with every write accepted
DirsOnlyDone ==
    /\ pc = "done" /\ ViewCalled /\ world.root_is_dir /\ args.dirs_only
    /\ ret = "Ok" /\ ~failed

C9_DepthWithinLimit ==
    /\ \A i \in 1..Len(emitted) :
         /\ emitted[i].depth >= 1
         /\ emitted[i].id # 0
         /\ args.level # NoLevel => emitted[i].depth <= args.level
    /\ (pc = "walk" /\ idx = 1) => (emitted = <<>> /\ dir_count = 0 /\ file_count = 0)

\* a tree with an entry at depth 2 was walked with the limit 1
C9_Witness ==
    /\ pc = "done" /\ args.level = 1 /\ args.all
    /\ \E i \in 1..Len(world.fs) :
         world.fs[i].depth = 2 /\ world.fs[i].kind = "file"
    /\ Len(emitted) = 2

NumDirLines(lines) == Cardinality({i \in 1..Len(lines) : lines[i].is_dir})

SummaryIndexes == {i \in 1..Len(out) : out[i].kind = "summary"}

CountersMatchEmitted ==
    /\ dir_count = NumDirLines(emitted)
    /\ file_count = Len(emitted) - NumDirLines(emitted)

\* the entry lines the sink accepted: every emitted line but, at most, the
\* last one
AcceptedOf(lines) ==
    {lines} \cup (IF lines = <<>> THEN {} ELSE {SubSeq(lines, 1, Len(lines) - 1)})

\* the output is the header, the accepted entry lines, a blank line and the
\* summary of the two counters, and holds no other summary
SummaryInPlace ==
    /\ \E acc \in AcceptedOf(emitted) :
         /\ out = <<HeaderLine>> \o acc \o <<BlankLine, SummaryLine(dir_count, file_count)>>
         /\ (~failed => acc = emitted)
    /\ Cardinality(SummaryIndexes) = 1

\* C10 as stated: the counters equal the numbers of directories and of other
\* entries emitted so far, and the summary line is written exactly once,
\* after the last entry line, after a blank line, with the final counters.
C10_CountsAndSummary ==
    /\ CountersMatchEmitted
    /\ (pc = "done" /\ ViewCalled /\ world.root_is_dir) => SummaryInPlace

\* C10 amended: the counters equal the numbers of directories and of other
\* entries that reached the write of their line; the summary is written at
\* most once, and when it is, it is the end of the output, after every
\* accepted entry line and a blank line, and carries the final counters. It
\* is written whenever view::run returns success and no write failed; it is
\* not written when view::run returns an error (the root is no directory,
\* the status index fails to build) or when the header write fails.
C10_Amended ==
    /\ CountersMatchEmitted
    /\ SummaryIndexes # {} => (SummaryInPlace /\ pc = "done" /\ ret = "Ok")
    /\ (pc = "done" /\ ViewCalled /\ ret = "Ok" /\ ~failed) => SummaryIndexes # {}

\* a walk that emitted a directory and two files wrote its summary
C10_Witness ==
    /\ pc = "done" /\ SummaryWritten /\ ~failed
    /\ dir_count = 1 /\ file_count = 2 /\ Len(out) = 6

\* the result the latest iteration of the loop took from the walk
LatestResult == results[idx]

\* the latest iteration passed over its result: a walk error, the root, or
\* with dirs_only something that is no directory
PassedOver(a, r) == ~r.ok \/ r.depth = 0 \/ (a.dirs_only /\ ~r.is_dir)

====
